---- MODULE Spec2Model ----
(***************************************************************************)
(* Model of src/financial_agent.py (StockAnalysisApp).                     *)
(*                                                                         *)
(* The Streamlit script is re-executed from the top for every user event:  *)
(* StockAnalysisApp() then app.run().  st.session_state is the only state  *)
(* that survives a rerun.  Spec models one rerun per step (one action per  *)
(* kind of user event).  SpecUnit calls the methods of the class directly, *)
(* as a unit test with stubbed widgets does, starting from the state       *)
(* __init__ leaves.                                                        *)
(***************************************************************************)
EXTENDS Integers, Sequences, FiniteSets, TLC

VARIABLES session_state, nHandles, event, input, out, prev

vars == <<session_state, nHandles, event, input, out, prev>>

(***************************************************************************)
(* Bounds and input sets                                                   *)
(***************************************************************************)
MaxHandles == 3
MaxMetrics == 2

None == 0
Handles == 1..MaxHandles

ValidKeys == {"sk-good", "sk-good2"}
Secrets == {"", " ", "sk-bad"} \cup ValidKeys

Symbols == {"AAPL", "GOOGL"}
SymbolInputs == Symbols \cup {""}

AnalysisTypes == {"Full Comparison", "Price Analysis", "Fundamentals", "News"}
OtherTypes == {"Dividends", ""}

MetricOptions == {"Price Trends", "Analyst Recommendations", "Company Info", "Recent News"}

SeqsUpTo(S, n) == UNION {[1..k -> S] : k \in 0..n}
IsInjective(s) == \A i, j \in 1..Len(s) : s[i] = s[j] => i = j
\* st.multiselect returns the chosen options in the order they were chosen,
\* each option at most once.
MultiselectValues == {m \in SeqsUpTo(MetricOptions, MaxMetrics) : IsInjective(m)}
\* A stubbed widget can hand any list to the handler.
MetricLists == SeqsUpTo(MetricOptions, MaxMetrics)

(***************************************************************************)
(* Python helpers                                                          *)
(***************************************************************************)
\* bool(s) for a str
Truthy(s) == s # ""

\* sep.join(seq)
\* Variant: the elements are joined last to first.
RECURSIVE join_reversed(_, _)
join_reversed(sep, seq) ==
    IF seq = <<>> THEN ""
    ELSE IF Len(seq) = 1 THEN seq[1]
    ELSE join_reversed(sep, Tail(seq)) \o sep \o seq[1]

RECURSIVE join(_, _)
join(sep, seq) ==
    IF seq = <<>> THEN ""
    ELSE IF Len(seq) = 1 THEN seq[1]
    ELSE seq[1] \o sep \o join(sep, Tail(seq))

NoInput ==
    [api_key |-> "", stock1 |-> "", stock2 |-> "", analysis_type |-> "",
     stock |-> "", metrics |-> <<>>, submitted |-> FALSE,
     generate |-> FALSE, analyze |-> FALSE, remoteOk |-> TRUE]

\* What one execution of a handler did, besides writing session_state.
NoOut ==
    [constructed |-> 0, ret |-> "none", formMessage |-> "none",
     mainMessage |-> "none", dispatched |-> FALSE, runCalls |-> 0,
     raised |-> "none", query |-> ""]

(***************************************************************************)
(* StockAnalysisApp                                                        *)
(***************************************************************************)
\* __init__: both keys are absent in a new session
InitSessionState == [api_key_verified |-> FALSE, assistant |-> None]

\* Assistant(llm=OpenAIChat(api_key=...), tools=...): the remote collaborator's
\* constructor; it raises for a credential it rejects.
AssistantCtor(api_key, fresh) ==
    IF api_key \in ValidKeys
    THEN [ok |-> TRUE, handle |-> fresh]
    ELSE [ok |-> FALSE, handle |-> None]

\* Variant: a second verification of a verified session is refused.
verify_api_key_once(ss, api_key, fresh) ==
    LET a == AssistantCtor(api_key, fresh) IN
    IF a.ok /\ ~ss.api_key_verified
    THEN [ss |-> [assistant |-> a.handle, api_key_verified |-> TRUE],
          o |-> [NoOut EXCEPT !.constructed = 1, !.ret = "True"]]
    ELSE [ss |-> [ss EXCEPT !.api_key_verified = FALSE],
          o |-> [NoOut EXCEPT !.constructed = 1, !.ret = "False"]]

\* Variant: the flag is set but the assistant is not stored.
verify_api_key_noStore(ss, api_key, fresh) ==
    LET a == AssistantCtor(api_key, fresh) IN
    IF a.ok
    THEN [ss |-> [ss EXCEPT !.api_key_verified = TRUE],
          o |-> [NoOut EXCEPT !.constructed = 1, !.ret = "True"]]
    ELSE [ss |-> [ss EXCEPT !.api_key_verified = FALSE],
          o |-> [NoOut EXCEPT !.constructed = 1, !.ret = "False"]]

verify_api_key(ss, api_key, fresh) ==
    LET a == AssistantCtor(api_key, fresh) IN
    IF a.ok
    THEN [ss |-> [assistant |-> a.handle, api_key_verified |-> TRUE],
          o |-> [NoOut EXCEPT !.constructed = 1, !.ret = "True"]]
    ELSE [ss |-> [ss EXCEPT !.api_key_verified = FALSE],
          o |-> [NoOut EXCEPT !.constructed = 1, !.ret = "False"]]

show_sidebar_form(ss, in, fresh) ==
    IF in.submitted
    THEN IF Truthy(in.api_key)
         THEN LET v == verify_api_key(ss, in.api_key, fresh) IN
              [ss |-> v.ss,
               o |-> [v.o EXCEPT !.formMessage =
                         IF v.o.ret = "True" THEN "success" ELSE "invalid"]]
         ELSE [ss |-> ss, o |-> [NoOut EXCEPT !.formMessage = "enter"]]
    ELSE [ss |-> ss, o |-> NoOut]

\* Variant: an unknown analysis type gets the last template of the table.
generate_query_lastDefault(stock1, stock2, analysis_type) ==
    LET news == "Compare recent news and market sentiment for "
                \o stock1 \o " and " \o stock2 \o "."
    IN CASE analysis_type = "Full Comparison" ->
              "Provide a comprehensive comparison between " \o stock1
              \o " and " \o stock2
              \o " including price trends, fundamentals, and market sentiment."
         [] analysis_type = "Price Analysis" ->
              "Compare price performance and technical indicators for "
              \o stock1 \o " and " \o stock2 \o "."
         [] analysis_type = "Fundamentals" ->
              "Compare key fundamental metrics and financial health of "
              \o stock1 \o " and " \o stock2 \o "."
         [] OTHER -> news

generate_query(stock1, stock2, analysis_type) ==
    LET queries ==
          [k \in AnalysisTypes |->
             CASE k = "Full Comparison" ->
                    "Provide a comprehensive comparison between " \o stock1
                    \o " and " \o stock2
                    \o " including price trends, fundamentals, and market sentiment."
               [] k = "Price Analysis" ->
                    "Compare price performance and technical indicators for "
                    \o stock1 \o " and " \o stock2 \o "."
               [] k = "Fundamentals" ->
                    "Compare key fundamental metrics and financial health of "
                    \o stock1 \o " and " \o stock2 \o "."
               [] k = "News" ->
                    "Compare recent news and market sentiment for "
                    \o stock1 \o " and " \o stock2 \o "."]
    IN IF analysis_type \in DOMAIN queries
       THEN queries[analysis_type]
       ELSE queries["Full Comparison"]

\* st.session_state.assistant.run(query, stream=False); st.markdown(response)
AssistantRun(ss, o, query, remoteOk) ==
    IF ss.assistant = None
    THEN [o EXCEPT !.dispatched = TRUE, !.query = query,
                   !.raised = "AttributeError"]
    ELSE IF remoteOk
    THEN [o EXCEPT !.dispatched = TRUE, !.query = query, !.runCalls = @ + 1,
                   !.mainMessage = "markdown"]
    ELSE [o EXCEPT !.dispatched = TRUE, !.query = query, !.runCalls = @ + 1,
                   !.raised = "RemoteError"]

handle_stock_comparison(ss, in, o) ==
    IF Truthy(in.stock1) /\ Truthy(in.stock2) /\ in.generate
    THEN [ss |-> ss,
          o |-> AssistantRun(ss, o,
                   generate_query(in.stock1, in.stock2, in.analysis_type),
                   in.remoteOk)]
    ELSE [ss |-> ss, o |-> o]

\* Variant: a failed remote call drops the verification.
handle_single_stock_resets(ss, in, o) ==
    IF Truthy(in.stock) /\ in.analyze
    THEN LET r == AssistantRun(ss, o,
                     "Analyze " \o in.stock \o " focusing on "
                     \o join(", ", in.metrics),
                     in.remoteOk) IN
         [ss |-> IF r.raised = "none" THEN ss
                 ELSE [ss EXCEPT !.api_key_verified = FALSE],
          o |-> r]
    ELSE [ss |-> ss, o |-> o]

handle_single_stock(ss, in, o) ==
    IF Truthy(in.stock) /\ in.analyze
    THEN [ss |-> ss,
          o |-> AssistantRun(ss, o,
                   "Analyze " \o in.stock \o " focusing on "
                   \o join(", ", in.metrics),
                   in.remoteOk)]
    ELSE [ss |-> ss, o |-> o]

show_main_content(ss, in, o) ==
    LET c == handle_stock_comparison(ss, in, o) IN
    IF c.o.raised # "none" THEN c
    ELSE handle_single_stock(c.ss, in, c.o)

\* Variant: the main content is shown whatever the flag says.
run_noGate(ss, in, fresh) ==
    LET f == show_sidebar_form(ss, in, fresh) IN
    show_main_content(f.ss, in, f.o)

run(ss, in, fresh) ==
    LET f == show_sidebar_form(ss, in, fresh) IN
    IF f.ss.api_key_verified
    THEN show_main_content(f.ss, in, f.o)
    ELSE [ss |-> f.ss, o |-> [f.o EXCEPT !.mainMessage = "warning"]]

(***************************************************************************)
(* State machine                                                           *)
(***************************************************************************)
Snapshot == [event |-> event, api_key |-> input.api_key,
             session_state |-> session_state, ret |-> out.ret]

Init ==
    /\ session_state = InitSessionState
    /\ nHandles = 0
    /\ event = "init"
    /\ input = NoInput
    /\ out = NoOut
    /\ prev = [event |-> "none", api_key |-> "",
               session_state |-> InitSessionState, ret |-> "none"]

\* One step: the handler result r for the inputs in.
Step(ev, in, r) ==
    /\ session_state' = r.ss
    /\ nHandles' = IF r.o.ret = "True" THEN nHandles + 1 ELSE nHandles
    /\ event' = ev
    /\ input' = in
    /\ out' = r.o
    /\ prev' = Snapshot

CanConstruct(api_key) == api_key \in ValidKeys => nHandles < MaxHandles

\* One rerun of the script (StockAnalysisApp(); app.run()) per user event
SubmitKey ==
    \E k \in Secrets :
        LET in == [NoInput EXCEPT !.submitted = TRUE, !.api_key = k] IN
        /\ CanConstruct(k)
        /\ Step("submit", in, run(session_state, in, nHandles + 1))

ClickGenerate ==
    \E s1, s2 \in SymbolInputs, t \in AnalysisTypes, ok \in BOOLEAN :
        LET in == [NoInput EXCEPT !.stock1 = s1, !.stock2 = s2,
                      !.analysis_type = t, !.generate = TRUE,
                      !.remoteOk = ok] IN
        /\ in.generate
        /\ Step("generate", in, run(session_state, in, nHandles + 1))

ClickAnalyze ==
    \E s \in SymbolInputs, m \in MultiselectValues, ok \in BOOLEAN :
        LET in == [NoInput EXCEPT !.stock = s, !.metrics = m,
                      !.analyze = TRUE, !.remoteOk = ok] IN
        /\ in.analyze
        /\ Step("analyze", in, run(session_state, in, nHandles + 1))

Next == SubmitKey \/ ClickGenerate \/ ClickAnalyze

Spec == Init /\ [][Next]_vars

(***************************************************************************)
(* Direct calls of the methods (widgets and collaborator stubbed)          *)
(***************************************************************************)
CallVerifyApiKey ==
    \E k \in Secrets :
        LET in == [NoInput EXCEPT !.api_key = k] IN
        /\ CanConstruct(k)
        /\ Step("verify_api_key", in,
                verify_api_key(session_state, k, nHandles + 1))

CallHandleStockComparison ==
    \E s1, s2 \in SymbolInputs, t \in AnalysisTypes, ok \in BOOLEAN :
        LET in == [NoInput EXCEPT !.stock1 = s1, !.stock2 = s2,
                      !.analysis_type = t, !.generate = TRUE,
                      !.remoteOk = ok] IN
        /\ in.generate
        /\ Step("handle_stock_comparison", in,
                handle_stock_comparison(session_state, in, NoOut))

CallHandleSingleStock ==
    \E s \in SymbolInputs, m \in MetricLists, ok \in BOOLEAN :
        LET in == [NoInput EXCEPT !.stock = s, !.metrics = m,
                      !.analyze = TRUE, !.remoteOk = ok] IN
        /\ in.analyze
        /\ Step("handle_single_stock", in,
                handle_single_stock(session_state, in, NoOut))

CallGenerateQuery ==
    \E s1, s2 \in Symbols, t \in AnalysisTypes \cup OtherTypes :
        LET in == [NoInput EXCEPT !.stock1 = s1, !.stock2 = s2,
                      !.analysis_type = t] IN
        /\ Truthy(s1) /\ Truthy(s2)
        /\ Step("generate_query", in,
                [ss |-> session_state,
                 o |-> [NoOut EXCEPT !.query = generate_query(s1, s2, t)]])

NextUnit ==
    \/ CallVerifyApiKey
    \/ CallHandleStockComparison
    \/ CallHandleSingleStock
    \/ CallGenerateQuery

SpecUnit == Init /\ [][NextUnit]_vars

TypeOK ==
    /\ session_state.api_key_verified \in BOOLEAN
    /\ session_state.assistant \in {None} \cup Handles
    /\ nHandles \in 0..MaxHandles
    /\ out.runCalls \in 0..1
    /\ out.constructed \in 0..1

(***************************************************************************)
(* Properties                                                              *)
(***************************************************************************)
Verified == session_state.api_key_verified
ClickEvents == {"generate", "analyze"}
BlankSecrets == {"", " "}

\* C1: a dispatch (assistant.run) happens only while api_key_verified is
\* true; a button click arriving while the session is unverified ends in the
\* warning, with no dispatch and no call to the remote collaborator.
C1_DispatchOnlyWhenVerified ==
    /\ (out.dispatched \/ out.runCalls > 0) =>
          (Verified /\ prev.session_state.api_key_verified)
    /\ (event \in ClickEvents /\ ~prev.session_state.api_key_verified) =>
          (~out.dispatched /\ out.runCalls = 0 /\ out.mainMessage = "warning")

\* A click on "Generate Analysis" with both symbols filled in reaches an
\* unverified session that still holds a handle, and nothing is dispatched.
C1_Witness ==
    /\ event = "generate"
    /\ Truthy(input.stock1) /\ Truthy(input.stock2)
    /\ ~Verified
    /\ session_state.assistant # None
    /\ out.runCalls = 0

\* C2: after a failed verify attempt (construction failed, or the secret was
\* empty) the verified flag is false and no assistant handle is stored.
C2_FailedVerifyClearsSession ==
    (event = "submit" /\ out.ret # "True") =>
        (~Verified /\ session_state.assistant = None)

\* C3: a verify attempt with an empty or whitespace-only secret fails and
\* does not invoke the assistant constructor.
C3_BlankSecretNoConstruction ==
    (event = "submit" /\ input.api_key \in BlankSecrets) =>
        (out.ret # "True" /\ out.formMessage # "success" /\ out.constructed = 0)

\* C4: no failure of the remote collaborator (assistant construction,
\* assistant.run) leaves the event handler as an uncaught exception.
C4_NoUncaughtException == out.raised = "none"

\* C5: a dispatch, successful or failed, leaves session_state as it was, and
\* session_state changes only in a step in which verify_api_key ran.
C5_DispatchFrame ==
    [][/\ out'.dispatched => session_state' = session_state
       /\ session_state' # session_state => out'.constructed = 1]_vars

\* A remote call failed in a verified session, and the session is still
\* verified with the handle it had.
C5_Witness ==
    /\ out.dispatched /\ out.raised = "RemoteError"
    /\ Verified
    /\ session_state = prev.session_state

\* C6: a dispatch with no assistant stored (None) is turned into the error
\* outcome Unbound: no remote call, and nothing raised out of the handler.
C6_AbsentHandleUnbound ==
    (out.dispatched /\ session_state.assistant = None) =>
        (out.runCalls = 0 /\ out.raised = "none")

\* C7: two consecutive verify attempts with the same valid secret both
\* succeed; the session is verified with a stored handle after the first and
\* after the second, and the main content stays enabled.
C7_VerifyIdempotent ==
    (/\ event = "submit" /\ prev.event = "submit"
     /\ input.api_key \in ValidKeys /\ prev.api_key = input.api_key) =>
        /\ prev.ret = "True" /\ out.ret = "True"
        /\ prev.session_state.api_key_verified
        /\ prev.session_state.assistant # None
        /\ Verified /\ session_state.assistant # None
        /\ out.mainMessage # "warning"

\* The same valid secret was submitted twice in a row.
C7_Witness ==
    /\ event = "submit" /\ prev.event = "submit"
    /\ input.api_key \in ValidKeys /\ prev.api_key = input.api_key
    /\ out.formMessage = "success"

\* C8: for an analysis type outside the four of the table, generate_query
\* returns what it returns for "Full Comparison" with the same symbols, and
\* raises nothing.
C8_UnknownTypeIsFullComparison ==
    (event = "generate_query" /\ input.analysis_type \notin AnalysisTypes) =>
        /\ out.query =
             generate_query(input.stock1, input.stock2, "Full Comparison")
        /\ out.raised = "none"

\* generate_query was called with an unknown type and gave the full
\* comparison of AAPL and GOOGL.
C8_Witness ==
    /\ event = "generate_query"
    /\ input.analysis_type = "Dividends"
    /\ out.query = "Provide a comprehensive comparison between AAPL and GOOGL including price trends, fundamentals, and market sentiment."

\* The labels m[1..k], each after the first preceded by ", ", appended to the
\* prefix from the left.
RECURSIVE FocusText(_, _, _)
FocusText(prefix, m, k) ==
    IF k = 0 THEN prefix
    ELSE FocusText(prefix, m, k - 1) \o (IF k > 1 THEN ", " ELSE "") \o m[k]

\* C9: the single-stock query is "Analyze S focusing on " followed by the
\* selected labels in the order given, separated by ", "; with no label
\* selected nothing follows the prefix.
C9_SingleStockQuery ==
    (event = "handle_single_stock" /\ Truthy(input.stock)) =>
        /\ out.dispatched
        /\ out.query = FocusText("Analyze " \o input.stock \o " focusing on ",
                                 input.metrics, Len(input.metrics))
        /\ input.metrics = <<>> =>
              out.query = "Analyze " \o input.stock \o " focusing on "
        /\ (input.stock = "GOOGL"
            /\ input.metrics = <<"Price Trends", "Recent News">>) =>
              out.query = "Analyze GOOGL focusing on Price Trends, Recent News"

\* Two labels were given in non-alphabetical order and kept that order.
C9_Witness ==
    /\ event = "handle_single_stock"
    /\ input.metrics = <<"Recent News", "Price Trends">>
    /\ out.query = "Analyze GOOGL focusing on Recent News, Price Trends"

\* C10: api_key_verified implies that an assistant is stored, so no dispatch
\* of the running application meets an absent handle.
C10_VerifiedHasHandle ==
    /\ Verified => session_state.assistant # None
    /\ out.dispatched => (session_state.assistant # None
                          /\ out.raised # "AttributeError")

\* A session verified more than once dispatches on the handle stored last.
C10_Witness ==
    /\ Verified /\ session_state.assistant \in Handles \ {1}
    /\ out.dispatched /\ out.runCalls = 1

====
